---------------------------- MODULE Spec2Model ----------------------------
(***************************************************************************)
(* Model of the syspurpose synchronisation layer of subscription-manager:  *)
(*   - three_way_merge / detect_changed   (syspurpose/files.py)            *)
(*   - SyncedStore / JsonSyncedStore / UserSyspurposeStore.sync            *)
(*                                                                         *)
(* Two specifications share the module.  SpecMerge runs three_way_merge    *)
(* as the loop the code runs, one key per step in an arbitrary order       *)
(* (Python iterates a set), on every triple of records within the bounds.  *)
(* SpecSync runs a UserSyspurposeStore session against its two files and   *)
(* the consumer record held by the server.                                 *)
(***************************************************************************)
EXTENDS Naturals, Sequences, FiniteSets, TLC

(***************************************************************************)
(* Bounds.                                                                 *)
(***************************************************************************)
NumVals == 3      \* distinct non-null scalars a key of a merged record may hold

(***************************************************************************)
(* JSON values.  Python compares None, strings and lists by kind and       *)
(* content; every value is a record of the same shape so that equality in  *)
(* the model is that comparison.                                           *)
(***************************************************************************)
NULL == [kind |-> "null", s |-> "", l |-> <<>>]

Str(x) == [kind |-> "str", s |-> x, l |-> <<>>]

List(q) == [kind |-> "list", s |-> "", l |-> q]

StrPool == <<"X", "Y", "Z", "W">>

\* The keys of the records merged under SpecMerge.  The loop treats each key
\* on its own; two keys give both visiting orders.
MergeKeys == {"role", "usage"}

\* A record (a Python dict): a function from the keys present to their values.
RecordsOver(K, V) == UNION {[D -> V] : D \in SUBSET K}

EmptyRec == [k \in {} |-> NULL]

\* dict.get(key): the value, None when the key is absent.
Get(d, key) == IF key \in DOMAIN d THEN d[key] ELSE NULL

\* d[key] = value on a dict.
Put(d, key, value) == [k \in (DOMAIN d) \cup {key} |-> IF k = key THEN value ELSE d[k]]

\* Python truthiness of a value: None, "" and [] are falsy.
Truthy(v) == v # NULL /\ v # Str("") /\ v # List(<<>>)

(***************************************************************************)
(* detect_changed and the body of three_way_merge's loop.                  *)
(***************************************************************************)
\* detect_changed with the local side treated as the server side is: a key
\* absent from local never counts as a change.
DetectChangedSymmetric(base, other, key, source) ==
    IF key \notin DOMAIN other
    THEN FALSE
    ELSE Get(base, key) # Get(other, key)

detect_changed(base, other, key, source) ==
    IF key \notin DOMAIN other /\ source # "local"
    THEN FALSE
    ELSE Get(base, key) # Get(other, key)

ValidPolicies == {"remote", "local"}

\* Lines 548-553: anything but "remote" and "local" raises ValueError.
PolicyAnything(p) == TRUE

PolicyValid(p) == p \in ValidPolicies

\* winner = remote / local, chosen before the loop.
WinnerFlipped(local, remote, on_conflict) ==
    IF on_conflict = "remote" THEN local ELSE remote

Winner(local, remote, on_conflict) ==
    IF on_conflict = "remote" THEN remote ELSE local

\* The loop taking an undecided key from base rather than from the winner.
MergeKeyFromBase(local, base, remote, on_conflict, key) ==
    LET local_changed  == detect_changed(base, local, key, "local")
        remote_changed == detect_changed(base, remote, key, "server")
    IN  [changed |-> local_changed \/ remote_changed,
         source  |-> IF local_changed = remote_changed THEN on_conflict
                     ELSE IF remote_changed THEN "remote" ELSE "local",
         from    |-> IF local_changed = remote_changed
                     THEN base
                     ELSE IF remote_changed THEN remote ELSE local]

\* What one iteration of the loop decides for `key`: the side it takes the
\* value from (`from`, a record), the DiffChange source label and whether a
\* DiffChange is emitted.
MergeKey(local, base, remote, on_conflict, key) ==
    LET local_changed  == detect_changed(base, local, key, "local")
        remote_changed == detect_changed(base, remote, key, "server")
    IN  [changed |-> local_changed \/ remote_changed,
         source  |-> IF local_changed = remote_changed THEN on_conflict
                     ELSE IF remote_changed THEN "remote" ELSE "local",
         from    |-> IF local_changed = remote_changed
                     THEN Winner(local, remote, on_conflict)
                     ELSE IF remote_changed THEN remote ELSE local]

\* result after the iteration for `key`, given the result so far.
MergeIntoStale(res, local, base, remote, on_conflict, key) ==
    LET m == MergeKey(local, res, remote, on_conflict, key)
    IN  IF key \in DOMAIN m.from THEN Put(res, key, m.from[key]) ELSE res

MergeInto(res, local, base, remote, on_conflict, key) ==
    LET m == MergeKey(local, base, remote, on_conflict, key)
    IN  IF key \in DOMAIN m.from THEN Put(res, key, m.from[key]) ELSE res

\* The DiffChange built at the end of the iteration (res is the result after it).
DiffChange(res, base, key, source) ==
    [key |-> key, source |-> source, previous_value |-> Get(base, key),
     new_value |-> Get(res, key), in_base |-> key \in DOMAIN base,
     in_result |-> key \in DOMAIN res]

\* The changes handed to on_change after the iteration for `key`.
EmitAlways(chs, res, local, base, remote, on_conflict, key) ==
    LET m == MergeKey(local, base, remote, on_conflict, key)
    IN  Append(chs, DiffChange(res, base, key, m.source))

Emit(chs, res, local, base, remote, on_conflict, key) ==
    LET m == MergeKey(local, base, remote, on_conflict, key)
    IN  IF m.changed THEN Append(chs, DiffChange(res, base, key, m.source)) ELSE chs

AllKeys(local, base, remote) == (DOMAIN local) \cup (DOMAIN base) \cup (DOMAIN remote)

\* three_way_merge as a function of its inputs (used by sync()): the loop run
\* over the keys in some order.
RECURSIVE MergeLoop(_, _, _, _, _, _)
MergeLoop(res, todo, local, base, remote, on_conflict) ==
    IF todo = {} THEN res
    ELSE LET key == CHOOSE k \in todo : TRUE
         IN  MergeLoop(MergeInto(res, local, base, remote, on_conflict, key),
                       todo \ {key}, local, base, remote, on_conflict)

three_way_merge(local, base, remote, on_conflict) ==
    MergeLoop(EmptyRec, AllKeys(local, base, remote), local, base, remote, on_conflict)

(***************************************************************************)
(* The copy of the merge in syspurpose/sync.py, which the function sync()  *)
(* of that module calls.                                                   *)
(***************************************************************************)
\* detect_changed of sync.py takes no source: a key absent from `other` is
\* never a change, on either side.
sync_detect_changed(base, other, key) ==
    IF key \notin DOMAIN other
    THEN FALSE
    ELSE Get(base, key) # Get(other, key)

\* One iteration of the loop of sync.py's three_way_merge.
SyncPyMergeKey(local, base, remote, on_conflict, key) ==
    LET local_changed  == sync_detect_changed(base, local, key)
        remote_changed == sync_detect_changed(base, remote, key)
    IN  [changed |-> local_changed \/ remote_changed,
         source  |-> IF local_changed = remote_changed THEN on_conflict
                     ELSE IF remote_changed THEN "remote" ELSE "local",
         from    |-> IF local_changed = remote_changed
                     THEN Winner(local, remote, on_conflict)
                     ELSE IF remote_changed THEN remote ELSE local]

RECURSIVE SyncPyMergeLoop(_, _, _, _, _, _)
SyncPyMergeLoop(res, todo, local, base, remote, on_conflict) ==
    IF todo = {} THEN res
    ELSE LET key == CHOOSE k \in todo : TRUE
             m == SyncPyMergeKey(local, base, remote, on_conflict, key)
             got == IF key \in DOMAIN m.from THEN Put(res, key, m.from[key]) ELSE res
         IN  SyncPyMergeLoop(got, todo \ {key}, local, base, remote, on_conflict)

\* three_way_merge of sync.py: the record it returns.
sync_three_way_merge(local, base, remote, on_conflict) ==
    SyncPyMergeLoop(EmptyRec, AllKeys(local, base, remote), local, base, remote, on_conflict)

\* The DiffChanges it hands to on_change, one for each key that changed; a
\* key's DiffChange reads only that key of the result.
SyncPyChanges(local, base, remote, on_conflict) ==
    LET res == sync_three_way_merge(local, base, remote, on_conflict)
    IN  {DiffChange(res, base, key, SyncPyMergeKey(local, base, remote, on_conflict, key).source) :
           key \in {k \in AllKeys(local, base, remote) :
                      SyncPyMergeKey(local, base, remote, on_conflict, k).changed}}

(***************************************************************************)
(* The stores of a UserSyspurposeStore: two JSON files and the consumer    *)
(* record on the server.                                                   *)
(***************************************************************************)
MaxSyncs == 2     \* sync() calls of one session
MaxEdits == 2     \* mutator calls of one session
MaxList == 1      \* the longest list a loaded record holds
MaxChecks == 2    \* update_check calls on one push cache
MaxOps == 4       \* calls on one status cache
MaxWriters == 2   \* writer threads of a status cache alive at once

ROLE == "role"

ADDONS == "addons"

SERVICE_LEVEL == "service_level_agreement"

USAGE == "usage"

ATTRIBUTES == {ROLE, ADDONS, SERVICE_LEVEL, USAGE}

\* The server's name of a local attribute.
LOCAL_TO_REMOTE(attr) ==
    CASE attr = ROLE -> "role"
      [] attr = ADDONS -> "addOns"
      [] attr = SERVICE_LEVEL -> "serviceLevel"
      [] attr = USAGE -> "usage"

RemoteNames == {LOCAL_TO_REMOTE(a) : a \in ATTRIBUTES}

\* Keys and values of the records the files and the server start with, and
\* keys the mutators of a session are called with; the mutators on every key
\* are those of SpecStore.
FileKeys == {ROLE}

EditKeys == {ROLE}

EditVals == {Str("X"), Str("Y")}

\* A file: JSON holding the dict d, content json.load rejects (an empty file
\* included), or no file.
JsonFile(d) == [kind |-> "json", d |-> d]

MalformedFile == [kind |-> "malformed", d |-> EmptyRec]

AbsentFile == [kind |-> "absent", d |-> EmptyRec]

\* `x or ""` and `addons if addons is not None else []` of update_remote.
OrEmptyStr(v) == IF Truthy(v) THEN v ELSE Str("")

OrEmptyList(v) == IF v # NULL THEN v ELSE List(<<>>)

\* JsonSyncedStore.get_local_contents under UserSyspurposeStore's try: the
\* dict kept when it is truthy, else the file loaded again; a file that does
\* not parse gives {}, a file that cannot be opened leaves the field as it is.
LocalReloads(mem, none) == none \/ mem = EmptyRec

LocalAfterGet(mem, none, file) ==
    IF ~LocalReloads(mem, none) THEN [d |-> mem, none |-> FALSE]
    ELSE IF file.kind = "json" THEN [d |-> file.d, none |-> FALSE]
    ELSE IF file.kind = "malformed" THEN [d |-> EmptyRec, none |-> FALSE]
    ELSE [d |-> mem, none |-> none]

\* JsonSyncedStore.get_cached_contents: the same, but a file that cannot be
\* opened raises.
CacheReloads(mem) == mem = EmptyRec

CacheGetRaises(mem, file) == CacheReloads(mem) /\ file.kind = "absent"

CacheAfterGet(mem, file) ==
    IF ~CacheReloads(mem) THEN mem
    ELSE IF file.kind = "json" THEN file.d
    ELSE EmptyRec

\* UserSyspurposeStore.get_remote_contents, when it does not raise: {} with
\* no uep, no consumer_uuid or no syspurpose capability; else the consumer's
\* attributes under their local names, those that are None left out.
RemoteSupplied(c) ==
    [a \in {x \in ATTRIBUTES : c[LOCAL_TO_REMOTE(x)] # NULL} |-> c[LOCAL_TO_REMOTE(a)]]

get_remote_contents(u, c) == IF u = "ok" THEN RemoteSupplied(c) ELSE EmptyRec

\* An update_remote that sends the defaults whatever the record holds.
PushDefaults(data) ==
    [n \in RemoteNames |-> IF n = "addOns" THEN List(<<>>) ELSE Str("")]

\* The keyword arguments update_remote hands to updateConsumer, by remote name.
PushPayload(data) ==
    [n \in RemoteNames |->
        CASE n = "role" -> OrEmptyStr(Get(data, ROLE))
          [] n = "addOns" -> OrEmptyList(Get(data, ADDONS))
          [] n = "serviceLevel" -> OrEmptyStr(Get(data, SERVICE_LEVEL))
          [] n = "usage" -> OrEmptyStr(Get(data, USAGE))]

\* What the server holds after updateConsumer(payload).  The server is not
\* part of the sources; two servers are modelled: one that stores every
\* attribute as sent, and one with "the typical CP empty => null semantics"
\* of lines 163-164, from which the service level deviates.
ServerStores(payload, nulls) ==
    [n \in RemoteNames |->
        IF nulls /\ n # "serviceLevel" /\ ~Truthy(payload[n]) THEN NULL ELSE payload[n]]

\* The policy sync() merges with: merge() passes no on_conflict, so the
\* default of three_way_merge applies.
SyncPolicyLocal == "local"

SyncPolicy == "remote"

(***************************************************************************)
(* State.                                                                  *)
(***************************************************************************)
VARIABLES
    \* one call of three_way_merge
    local, base, remote, on_conflict,   \* its arguments
    pending,                            \* keys the loop has not visited yet
    result,                             \* the dict being built
    changes,                            \* DiffChanges handed to on_change, in order
    pc,                                 \* "start" | "loop" | "done" | "error"
    round,                              \* 1: first call, 2: the call on its own output
    first,                              \* inputs and output of the first call
    \* one UserSyspurposeStore session, its files and its server
    uep,                \* "none": no uep or no consumer_uuid; "old": a server
                        \* without the syspurpose capability; "ok"
    consumer,           \* the consumer record the server holds, by remote name
    cp_nulls,           \* the server stores an empty attribute as null
    local_file,         \* the file at PATH
    cache_file,         \* the file at CACHE_PATH
    sess,               \* "none" | "open" | "failed" (the constructor raised)
    local_contents,     \* self.local_contents when it is a dict
    local_none,         \* self.local_contents is None
    cache_contents,     \* self.cache_contents
    aliased,            \* local_contents and cache_contents are one dict object
    changed,            \* self.changed
    outcome,            \* how the last sync() ended
    last,               \* the last merge sync() ran: its inputs and its result
    ret,                \* what the last sync() returned
    run_local,          \* the local record before the first sync() since a mutator
    run_len,            \* sync() calls since the last mutator
    pushes,             \* updateConsumer calls the server has received
    nsyncs,             \* sync() calls made
    nedits,             \* mutator calls made
    finished,           \* the last call was finish(): "True" | "False" | "raised";
                        \* "none" after any other call
    \* one store object and the mutator last called on it
    store,              \* its class: "SyspurposeStore" | "SyncedStore"
    contents,           \* self.contents, self.local_contents of a SyncedStore
    dirty,              \* self.changed of a SyncedStore
    call,               \* the last call: its method, key and value
    returned,           \* what it returned: "True" | "False", or "TypeError"
    before,             \* the record before it
    \* one push cache, its cache file and its server
    manager,            \* its class: "InstalledProductsManager" | "ProfileManager"
    installed,          \* the products of the product directory: id -> version
    tags,               \* the tags those products provide
    push_file,          \* the file at InstalledProductsManager.CACHE_FILE
    held,               \* the facts the server received last
    attempts,           \* _sync_with_server calls made
    check,              \* the last update_check: its arguments and how it ended
    nchecks,            \* update_check calls made
    last_one,           \* how the cache write of the last update_check that
                        \* returned 1 ended, "none" before there is one
    \* one StatusCache, its cache file and its writer threads
    server_status,      \* self.server_status: "None" or a status
    last_error,         \* self.last_error: "None", "False" or the error caught
    pull_file,          \* the content of the file at CACHE_FILE, or "absent"
    waiting,            \* writer threads started that have not opened the file
    writing,            \* writer threads that hold the file open
    orphaned,           \* writer threads that hold open a file since removed
    deleting,           \* delete_cache is between os.remove and the clearing
    did,                \* the last call that returned, and what happened in it
    seen,               \* the content the last read of the file found
    shown,              \* the last status read_status returned since delete_cache
    fresh,              \* the same, a status load_status fetched since counting too
    failed,             \* a writer thread ended on an IOError since the last fetch
    nops,               \* calls made
    \* the function sync() of sync.py
    command             \* the `command` of its last call, "None" before any

mvars == <<local, base, remote, on_conflict, pending, result, changes, pc, round, first>>

svars == <<uep, consumer, cp_nulls, local_file, cache_file, sess, local_contents, local_none,
           cache_contents, aliased, changed, outcome, last, ret, run_local, run_len,
           pushes, nsyncs, nedits, finished>>

tvars == <<store, contents, dirty, call, returned, before>>

pvars == <<manager, installed, tags, push_file, held, attempts, check, nchecks, last_one>>

qvars == <<server_status, last_error, pull_file, waiting, writing, orphaned, deleting,
           did, seen, shown, fresh, failed, nops>>

cvars == <<pvars, qvars>>

vars == <<mvars, svars, tvars, cvars, command>>

NoFirst == [local |-> EmptyRec, base |-> EmptyRec, remote |-> EmptyRec, out |-> EmptyRec]

NoConsumer == [n \in RemoteNames |-> NULL]

\* No session: the state of the session's variables before the constructor.
SessionUnborn ==
    /\ sess = "none"
    /\ local_contents = EmptyRec
    /\ local_none = TRUE
    /\ cache_contents = EmptyRec
    /\ aliased = FALSE
    /\ changed = FALSE
    /\ outcome = "none"
    /\ last = [local |-> EmptyRec, base |-> EmptyRec, remote |-> EmptyRec, result |-> EmptyRec]
    /\ ret = EmptyRec
    /\ run_local = EmptyRec
    /\ run_len = 0
    /\ pushes = 0
    /\ nsyncs = 0
    /\ nedits = 0
    /\ finished = "none"
    /\ command = "None"

\* SpecMerge runs no session.
SyncIdle ==
    /\ uep = "none"
    /\ consumer = NoConsumer
    /\ cp_nulls = FALSE
    /\ local_file = AbsentFile
    /\ cache_file = AbsentFile
    /\ SessionUnborn

NoCall == [op |-> "none", key |-> "", value |-> NULL]

\* SpecMerge and SpecSync run no store of this kind.
StoreIdle ==
    /\ store = "SyncedStore"
    /\ contents = EmptyRec
    /\ dirty = FALSE
    /\ call = NoCall
    /\ returned = "none"
    /\ before = EmptyRec

NoFacts == [products |-> EmptyRec, tags |-> {}]

NoCacheFile == [kind |-> "absent", products |-> EmptyRec, tags |-> <<>>]

NoError == [kind |-> "none", msg |-> ""]

NoCheck == [uuid |-> "None", force |-> FALSE, changed |-> "none", ret |-> "none",
            push |-> NoError, error |-> NoError, wrote |-> "none"]

\* No push cache: the state of its variables in the specifications that run
\* none.
PushIdle ==
    /\ manager = "InstalledProductsManager"
    /\ installed = EmptyRec
    /\ tags = {}
    /\ push_file = NoCacheFile
    /\ held = NoFacts
    /\ attempts = 0
    /\ check = NoCheck
    /\ nchecks = 0
    /\ last_one = "none"

NoOp == [name |-> "none", fetch |-> "none", ret |-> "None", called |-> FALSE, disk |-> FALSE]

PullIdle ==
    /\ server_status = "None"
    /\ last_error = "None"
    /\ pull_file = "absent"
    /\ waiting = 0
    /\ writing = 0
    /\ orphaned = 0
    /\ deleting = FALSE
    /\ did = NoOp
    /\ seen = "none"
    /\ shown = "None"
    /\ fresh = "None"
    /\ failed = FALSE
    /\ nops = 0

CacheIdle == PushIdle /\ PullIdle

\* SpecSync runs no merge of its own beside the one inside sync().
MergeIdle ==
    /\ local = EmptyRec
    /\ base = EmptyRec
    /\ remote = EmptyRec
    /\ on_conflict = "remote"
    /\ pending = {}
    /\ result = EmptyRec
    /\ changes = <<>>
    /\ pc = "start"
    /\ round = 1
    /\ first = NoFirst

\* The records merged: the keys hold null or one of NumVals strings.
MergeRecords == RecordsOver(MergeKeys, {NULL} \cup {Str(StrPool[i]) : i \in 1..NumVals})

InitMerge ==
    /\ local \in MergeRecords
    /\ base \in MergeRecords
    /\ remote \in MergeRecords
    \* the two policies and a value that is neither
    /\ on_conflict \in ValidPolicies \cup {"base"}
    /\ pending = {}
    /\ result = EmptyRec
    /\ changes = <<>>
    /\ pc = "start"
    /\ round = 1
    /\ first = NoFirst
    /\ SyncIdle
    /\ StoreIdle
    /\ CacheIdle

\* Lines 543-558: the policy check, then all_keys.
MergeEnter ==
    /\ pc = "start"
    /\ PolicyValid(on_conflict)
    /\ pc' = "loop"
    /\ pending' = AllKeys(local, base, remote)
    /\ result' = EmptyRec
    /\ changes' = <<>>
    /\ UNCHANGED <<local, base, remote, on_conflict, round, first>>
    /\ UNCHANGED <<svars, tvars, cvars, command>>

\* Line 553: raise ValueError.
MergeRaise ==
    /\ pc = "start"
    /\ ~PolicyValid(on_conflict)
    /\ pc' = "error"
    /\ UNCHANGED <<local, base, remote, on_conflict, pending, result, changes, round, first>>
    /\ UNCHANGED <<svars, tvars, cvars, command>>

\* Lines 560-585: one iteration, for any key not visited yet.
MergeStep ==
    /\ pc = "loop"
    /\ \E key \in pending :
         LET res == MergeInto(result, local, base, remote, on_conflict, key)
         IN  /\ result' = res
             /\ changes' = Emit(changes, res, local, base, remote, on_conflict, key)
             /\ pending' = pending \ {key}
    /\ UNCHANGED <<local, base, remote, on_conflict, pc, round, first>>
    /\ UNCHANGED <<svars, tvars, cvars, command>>

\* Line 587: return result.
MergeReturn ==
    /\ pc = "loop"
    /\ pending = {}
    /\ pc' = "done"
    /\ UNCHANGED <<local, base, remote, on_conflict, pending, result, changes, round, first>>
    /\ UNCHANGED <<svars, tvars, cvars, command>>

\* The caller merges again with the output as local and as base; the remote
\* record is the one it was, or the output (what a push leaves there).
MergeAgain ==
    /\ pc = "done"
    /\ round = 1
    /\ first' = [local |-> local, base |-> base, remote |-> remote, out |-> result]
    /\ local' = result
    /\ base' = result
    /\ remote' \in {remote, result}
    /\ round' = 2
    /\ pc' = "start"
    /\ pending' = {}
    /\ result' = EmptyRec
    /\ changes' = <<>>
    /\ UNCHANGED on_conflict
    /\ UNCHANGED <<svars, tvars, cvars, command>>

NextMerge == MergeEnter \/ MergeRaise \/ MergeStep \/ MergeReturn \/ MergeAgain

SpecMerge == InitMerge /\ [][NextMerge]_vars

(***************************************************************************)
(* A UserSyspurposeStore session.                                          *)
(***************************************************************************)
FileRecords == RecordsOver(FileKeys, EditVals)

Files == {JsonFile(d) : d \in FileRecords} \cup {MalformedFile, AbsentFile}

\* Consumer records a server that supports syspurpose starts with.
Consumers ==
    {c \in [RemoteNames -> {NULL} \cup EditVals] :
        \A a \in ATTRIBUTES \ FileKeys : c[LOCAL_TO_REMOTE(a)] = NULL}

InitSync ==
    /\ uep \in {"none", "old", "ok"}
    /\ consumer \in (IF uep = "ok" THEN Consumers ELSE {NoConsumer})
    /\ cp_nulls \in (IF uep = "ok" THEN BOOLEAN ELSE {FALSE})
    /\ local_file \in Files
    /\ cache_file \in Files
    /\ SessionUnborn
    /\ MergeIdle
    /\ StoreIdle
    /\ CacheIdle

\* SyncedStore.__init__ (lines 225-240): both records are read; a cache file
\* that cannot be opened raises out of the constructor.
Open ==
    /\ sess = "none"
    /\ LET la == LocalAfterGet(EmptyRec, TRUE, local_file)
       IN  IF CacheGetRaises(EmptyRec, cache_file)
           THEN /\ sess' = "failed"
                /\ UNCHANGED <<local_contents, local_none, cache_contents>>
           ELSE /\ sess' = "open"
                /\ local_contents' = la.d
                /\ local_none' = la.none
                /\ cache_contents' = CacheAfterGet(EmptyRec, cache_file)
    /\ UNCHANGED <<uep, consumer, cp_nulls, local_file, cache_file, aliased, changed,
                   outcome, last, ret, run_local, run_len, pushes, nsyncs, nedits,
                   finished>>
    /\ UNCHANGED <<mvars, tvars, cvars, command>>

\* del d[key].
Drop(d, key) == [k \in (DOMAIN d) \ {key} |-> d[k]]

\* The dict SyncedStore.unset leaves (lines 359-366).
UnsetIn(d, key) ==
    IF key = SERVICE_LEVEL THEN Put(d, key, Str(""))
    ELSE IF key = ADDONS THEN Put(d, key, List(<<>>))
    ELSE Drop(d, key)

\* A mutator wrote newd into the dict self.local_contents names; the cache
\* record is that dict too when both fields name the result of a sync().
Mutated(newd) ==
    /\ nedits < MaxEdits
    /\ nedits' = nedits + 1
    /\ local_contents' = newd
    /\ cache_contents' = IF aliased THEN newd ELSE cache_contents
    /\ outcome' = "none"
    /\ run_local' = EmptyRec
    /\ run_len' = 0
    /\ finished' = "none"
    /\ UNCHANGED <<uep, consumer, cp_nulls, local_file, cache_file, sess, local_none,
                   aliased, last, ret, pushes, nsyncs>>
    /\ UNCHANGED <<mvars, tvars, cvars, command>>

\* SyncedStore.set (lines 371-388).
Set ==
    /\ sess = "open"
    /\ ~local_none
    /\ \E key \in EditKeys, value \in EditVals :
         LET org == Get(local_contents, key)
         IN  /\ changed' = (changed \/ org # value \/ org = NULL)
             /\ Mutated(Put(local_contents, key, value))

\* SyncedStore.unset (lines 349-369).
Unset ==
    /\ sess = "open"
    /\ ~local_none
    /\ \E key \in EditKeys :
         /\ changed' = TRUE
         /\ Mutated(UnsetIn(local_contents, key))

\* sync() (lines 254-270), up to the merge: the three records it reads.
SyncLocalGot == LocalAfterGet(local_contents, local_none, local_file)

SyncLocal == IF SyncLocalGot.none THEN EmptyRec ELSE SyncLocalGot.d

SyncCache == CacheAfterGet(cache_contents, cache_file)

SyncRemote == get_remote_contents(uep, consumer)

SyncResult == three_way_merge(SyncLocal, SyncCache, SyncRemote, SyncPolicy)

\* Each get_*_contents that loads its file leaves a fresh dict in its field.
AliasedAfterGet ==
    aliased /\ ~LocalReloads(local_contents, local_none) /\ ~CacheReloads(cache_contents)

\* An update_remote that skips the call when the merge gave the fetched record.
PushedUnlessEqual ==
    IF uep = "none" \/ SyncResult = SyncRemote THEN UNCHANGED <<consumer, pushes>>
    ELSE /\ pushes' = pushes + 1
         /\ IF uep = "ok"
            THEN consumer' = ServerStores(PushPayload(SyncResult), cp_nulls)
            ELSE UNCHANGED consumer

\* update_remote (lines 488-500): nothing without uep or consumer_uuid; else
\* updateConsumer, which a server without syspurpose accepts and ignores.
Pushed ==
    IF uep = "none" THEN UNCHANGED <<consumer, pushes>>
    ELSE /\ pushes' = pushes + 1
         /\ IF uep = "ok"
            THEN consumer' = ServerStores(PushPayload(SyncResult), cp_nulls)
            ELSE UNCHANGED consumer

\* A sync() that resets self.changed before it does anything else.
ChangedCleared(how, flag) == FALSE

\* self.changed after sync(): `self.changed = False` (line 268) is its last
\* statement before the return, which a raise does not reach.
ChangedAfter(how, flag) == IF how = "returned" THEN FALSE ELSE flag

\* Bookkeeping of every sync() call.
SyncCalled(how) ==
    /\ sess = "open"
    /\ nsyncs < MaxSyncs
    /\ ~CacheGetRaises(cache_contents, cache_file)
    /\ nsyncs' = nsyncs + 1
    /\ outcome' = how
    /\ changed' = ChangedAfter(how, changed)
    /\ ret' = IF how = "returned" THEN SyncResult ELSE EmptyRec
    /\ run_len' = run_len + 1
    /\ run_local' = IF run_len # 0 THEN run_local
                    ELSE IF local_none THEN EmptyRec ELSE local_contents
    /\ UNCHANGED <<uep, cp_nulls, sess, nedits>>
    /\ UNCHANGED <<mvars, tvars, cvars, command>>

Merging ==
    last' = [local |-> SyncLocal, base |-> SyncCache, remote |-> SyncRemote,
             result |-> SyncResult]

\* getConsumer raises (line 477): sync() ends before it read anything else.
SyncFetchRaises ==
    /\ SyncCalled("fetch_raised")
    /\ uep = "ok"
    /\ UNCHANGED <<consumer, local_file, cache_file, local_contents, local_none,
                   cache_contents, aliased, last, pushes>>

\* updateConsumer raises (line 493): the records were read and merged, no
\* store was written.
SyncPushRaises ==
    /\ SyncCalled("push_raised")
    /\ uep # "none"
    /\ Merging
    /\ local_contents' = SyncLocalGot.d
    /\ local_none' = SyncLocalGot.none
    /\ cache_contents' = SyncCache
    /\ aliased' = AliasedAfterGet
    /\ UNCHANGED <<consumer, local_file, cache_file, pushes>>

\* update_file(self.path) raises (line 426), after the push.
SyncLocalWriteRaises ==
    /\ SyncCalled("local_write_raised")
    /\ Merging
    /\ Pushed
    /\ local_contents' = SyncResult
    /\ local_none' = FALSE
    /\ cache_contents' = SyncCache
    /\ aliased' = FALSE
    /\ UNCHANGED <<local_file, cache_file>>

\* update_file(self.cache_path) raises (line 430), after the local write.
SyncCacheWriteRaises ==
    /\ SyncCalled("cache_write_raised")
    /\ Merging
    /\ Pushed
    /\ local_contents' = SyncResult
    /\ local_none' = FALSE
    /\ local_file' = JsonFile(SyncResult)
    /\ cache_contents' = SyncResult
    /\ aliased' = TRUE
    /\ UNCHANGED cache_file

\* sync() returns result.
SyncReturns ==
    /\ SyncCalled("returned")
    /\ Merging
    /\ Pushed
    /\ local_contents' = SyncResult
    /\ local_none' = FALSE
    /\ local_file' = JsonFile(SyncResult)
    /\ cache_contents' = SyncResult
    /\ cache_file' = JsonFile(SyncResult)
    /\ aliased' = TRUE

\* One run of sync(), whoever called it.
SyncRuns ==
    \/ SyncFetchRaises
    \/ SyncPushRaises
    \/ SyncLocalWriteRaises
    \/ SyncCacheWriteRaises
    \/ SyncReturns

\* sync() called on the session directly.
Sync ==
    /\ SyncRuns
    /\ finished' = "none"

\* A finish() that calls sync() whatever self.changed says.
FinishSyncsAlways == TRUE

\* `if self.changed` of finish() (line 249).
FinishSyncs == changed

\* finish() (lines 248-252), which __exit__ (lines 245-246) calls on every
\* way out of the with block: one sync() and True when self.changed, else
\* False; an exception of that sync() leaves finish().
Finish ==
    /\ sess = "open"
    /\ IF FinishSyncs
       THEN /\ SyncRuns
            /\ finished' = IF outcome' = "returned" THEN "True" ELSE "raised"
       ELSE /\ finished' = "False"
            /\ UNCHANGED <<uep, consumer, cp_nulls, local_file, cache_file, sess,
                           local_contents, local_none, cache_contents, aliased, changed,
                           outcome, last, ret, run_local, run_len, pushes, nsyncs, nedits>>
            /\ UNCHANGED <<mvars, tvars, cvars, command>>

NextSync == Open \/ Set \/ Unset \/ Sync \/ Finish

SpecSync == InitSync /\ [][NextSync]_vars

(***************************************************************************)
(* The mutators of SyspurposeStore and of SyncedStore, on one store.       *)
(***************************************************************************)
StoreKeys == {ROLE, SERVICE_LEVEL, ADDONS}

\* The values the callers pass: strings.
ArgVals == {Str("X"), Str("Y")}


\* The values a loaded record holds.
StoreVals ==
    {NULL, Str(""), Str("X")}
        \cup {List(q) : q \in UNION {[1..n -> {"X", "Y"}] : n \in 0..MaxList}}

Elems(q) == {q[i] : i \in 1..Len(q)}

\* list.remove(x): the list without the first x.
RemoveFirst(q, x) ==
    LET i == CHOOSE j \in 1..Len(q) : q[j] = x /\ \A m \in 1..(j - 1) : q[m] # x
    IN  SubSeq(q, 1, i - 1) \o SubSeq(q, i + 1, Len(q))

\* The dict SyspurposeStore.unset leaves (lines 165-169).
SyspurposeUnsetIn(d, key) ==
    IF key = SERVICE_LEVEL THEN Put(d, key, Str("")) ELSE Drop(d, key)

\* An unset that deletes whatever key it is given.
UnsetDrops(cls, d, key) == Drop(d, key)

UnsetOf(cls, d, key) ==
    IF cls = "SyncedStore" THEN UnsetIn(d, key) ELSE SyspurposeUnsetIn(d, key)

\* An unset that reports whether the key was in the dict.
UnsetReturnsExisted(d, key) == key \in DOMAIN d

\* `return value is not None` of both unset methods.
UnsetReturns(d, key) == Get(d, key) # NULL

\* add up to its test (lines 310-314): the list the key names once a scalar
\* was wrapped and None replaced by [].
Promoted(cur) ==
    IF cur = NULL THEN <<>> ELSE IF cur.kind = "list" THEN cur.l ELSE <<cur.s>>

\* add returns True: the key was missing (KeyError) or the value is not in
\* the list.
AddReturns(d, key, value) ==
    key \notin DOMAIN d \/ value.s \notin Elems(Promoted(d[key]))

\* The dict add leaves: the wrapped list is stored before the test.
AddIn(d, key, value) ==
    IF key \notin DOMAIN d THEN Put(d, key, List(<<value.s>>))
    ELSE IF AddReturns(d, key, value)
         THEN Put(d, key, List(Append(Promoted(d[key]), value.s)))
         ELSE Put(d, key, List(Promoted(d[key])))

\* How remove ends (lines 336-347): "unset" when the key names a scalar equal
\* to the value; "TypeError" when it names None (`value in None`, which the
\* except clause does not catch); "removed" when it names a list with the
\* value; else "False" (a missing key, a list without the value, and another
\* string, for which `in` is False or str has no remove).
RemoveEnds(d, key, value) ==
    IF key \notin DOMAIN d THEN "False"
    ELSE IF d[key] = NULL THEN "TypeError"
    ELSE IF d[key].kind = "str" THEN (IF d[key] = value THEN "unset" ELSE "False")
    ELSE IF value.s \in Elems(d[key].l) THEN "removed" ELSE "False"

RemoveIn(cls, d, key, value) ==
    CASE RemoveEnds(d, key, value) = "unset" -> UnsetOf(cls, d, key)
      [] RemoveEnds(d, key, value) = "removed" ->
            Put(d, key, List(RemoveFirst(d[key].l, value.s)))
      [] OTHER -> d

RemoveReturns(d, key, value) ==
    CASE RemoveEnds(d, key, value) = "unset" -> UnsetReturns(d, key)
      [] RemoveEnds(d, key, value) = "removed" -> TRUE
      [] OTHER -> FALSE

\* A set that always reports a change.
SetReturnsAlways(d, key, value) == TRUE

\* `org != value or org is None` of both set methods.
SetReturns(d, key, value) == Get(d, key) # value \/ Get(d, key) = NULL

SetIn(d, key, value) == Put(d, key, value)

PyBool(b) == IF b THEN "True" ELSE "False"

InitStore ==
    /\ store \in {"SyspurposeStore", "SyncedStore"}
    /\ contents \in RecordsOver(StoreKeys, StoreVals)
    /\ dirty = FALSE
    /\ call = NoCall
    /\ returned = "none"
    /\ before = EmptyRec
    /\ SyncIdle
    /\ MergeIdle
    /\ CacheIdle

\* Bookkeeping of every mutator call; self.changed is a field of SyncedStore
\* alone.
Called(op, key, value, newd, r, marks) ==
    /\ call' = [op |-> op, key |-> key, value |-> value]
    /\ before' = contents
    /\ contents' = newd
    /\ returned' = r
    /\ dirty' = (dirty \/ (store = "SyncedStore" /\ marks))
    /\ UNCHANGED store
    /\ UNCHANGED <<mvars, svars, cvars, command>>

\* SyspurposeStore.add (lines 105-129), SyncedStore.add (lines 298-323).
StoreAdd ==
    \E key \in StoreKeys, value \in ArgVals :
        Called("add", key, value, AddIn(contents, key, value),
               PyBool(AddReturns(contents, key, value)),
               AddReturns(contents, key, value))

\* SyspurposeStore.remove (lines 131-153), SyncedStore.remove (lines 325-347).
StoreRemove ==
    \E key \in StoreKeys, value \in ArgVals :
        Called("remove", key, value, RemoveIn(store, contents, key, value),
               IF RemoveEnds(contents, key, value) = "TypeError" THEN "TypeError"
               ELSE PyBool(RemoveReturns(contents, key, value)),
               RemoveEnds(contents, key, value) \in {"unset", "removed"})

\* SyspurposeStore.unset (lines 155-171), SyncedStore.unset (lines 349-369).
StoreUnset ==
    \E key \in StoreKeys :
        Called("unset", key, NULL, UnsetOf(store, contents, key),
               PyBool(UnsetReturns(contents, key)), TRUE)

\* SyspurposeStore.set (lines 173-186), SyncedStore.set (lines 371-388).
StoreSet ==
    \E key \in StoreKeys, value \in ArgVals :
        Called("set", key, value, SetIn(contents, key, value),
               PyBool(SetReturns(contents, key, value)),
               SetReturns(contents, key, value))

NextStore == StoreAdd \/ StoreRemove \/ StoreUnset \/ StoreSet

SpecStore == InitStore /\ [][NextStore]_vars

(***************************************************************************)
(* CacheManager.update_check on an InstalledProductsManager.               *)
(***************************************************************************)
TagPool == {"t"}

\* The products installed: id -> the data of the product, here its version.
ProductMaps == RecordsOver({"p1", "p2"}, {"1", "2"})

\* to_dict (line 518).
Facts(prods, tgs) == [products |-> prods, tags |-> tgs]

\* json.dump with default=json.encode of rhsm.ourjson: a set is written as
\* a list of its elements.
RECURSIVE TagList(_)
TagList(tgs) ==
    IF tgs = {} THEN <<>>
    ELSE LET t == CHOOSE x \in tgs : TRUE IN <<t>> \o TagList(tgs \ {t})

\* A has_changed that reads no tags from the cache.
TagSetLost(l) == {}

\* set(cached['tags']) (line 532).
TagSet(l) == {l[i] : i \in DOMAIN l}

\* The cache file after a write_cache that went through: to_dict as JSON,
\* which for a ProfileManager is the profile and holds no tags.
CacheEntryOf(facts) ==
    [kind |-> "entry", products |-> facts.products, tags |-> TagList(facts.tags)]

\* A cache file that json.loads rejects (empty, cut short, not JSON).
MalformedCache == [kind |-> "malformed", products |-> EmptyRec, tags |-> <<>>]

\* A cache file in an older format: JSON without "products" or "tags"; for
\* a ProfileManager, JSON that is no profile of this system.
OldFormatCache == [kind |-> "old", products |-> EmptyRec, tags |-> <<>>]

PushFiles ==
    {NoCacheFile, MalformedCache, OldFormatCache}
        \cup {CacheEntryOf(Facts(p, t)) : p \in ProductMaps, t \in SUBSET TagPool}

\* ProfileManager.has_changed (lines 449-455): of a file json.loads rejects
\* _read_cache returns None, which equals no profile.
ProfileHasChanged(file, profile) ==
    IF file.kind = "absent" THEN "True"
    ELSE IF file.kind \in {"malformed", "old"} THEN "True"
    ELSE IF file.products # profile THEN "True"
    ELSE "False"

\* A has_changed that stops at the comparison of the key counts.
HasChangedByCount(cls, file, inst, tgs) ==
    IF cls = "ProfileManager" THEN ProfileHasChanged(file, inst)
    ELSE IF file.kind = "absent" THEN "True"
    ELSE IF file.kind = "malformed" THEN "TypeError"
    ELSE IF file.kind = "old" THEN "True"
    ELSE IF Cardinality(DOMAIN file.products) # Cardinality(DOMAIN inst) THEN "True"
    ELSE IF TagSet(file.tags) # tgs THEN "True"
    ELSE "False"

\* has_changed of the class.  InstalledProductsManager.has_changed (lines
\* 524-548): _read_cache (lines 119-136) returns None for a file json.loads
\* rejects, and cached['products'] on None raises TypeError, which
\* `except KeyError` lets through.
has_changed(cls, file, inst, tgs) ==
    IF cls = "ProfileManager" THEN ProfileHasChanged(file, inst)
    ELSE IF file.kind = "absent" THEN "True"
    ELSE IF file.kind = "malformed" THEN "TypeError"
    ELSE IF file.kind = "old" THEN "True"
    ELSE IF Cardinality(DOMAIN file.products) # Cardinality(DOMAIN inst) THEN "True"
    ELSE IF file.products # inst THEN "True"
    ELSE IF TagSet(file.tags) # tgs THEN "True"
    ELSE "False"

\* An update_check that looks for None alone.
IdentityIsNone(uuid) == uuid = "None"

\* `not consumer_uuid` (line 157).
NoIdentity(uuid) == uuid \in {"None", ""}

\* What _sync_with_server does: it returns, or uep.updateConsumer raises a
\* RestlibException or something else.
OtherErrors ==
    {[kind |-> "socket.error", msg |-> "connection refused"],
     [kind |-> "ValueError", msg |-> "no JSON in the response"]}

GenericError ==
    [kind |-> "Exception",
     msg |-> "Error updating system data on the server, see /var/log/rhsm/rhsm.log for more details."]

\* An update_check that lets every error of the push through.
ReraisedVerbatim(err) == err

\* The except clauses of update_check (lines 178-184).
Reraised(err) == IF err.kind = "RestlibException" THEN err ELSE GenericError

\* write_cache (lines 96-117): the file written; open() failing, which
\* leaves the file; json.dump failing after open(.., "w+") emptied the file.
\* The IOError is logged, not raised.

WriteCache(file, facts, w) ==
    CASE w = "written" -> CacheEntryOf(facts)
      [] w = "open_failed" -> file
      [] w = "dump_failed" -> MalformedCache

\* An update_check that writes the cache whether the push went through or not.
WrittenAnyway(file, facts) == CacheEntryOf(facts)

\* The cache file after a push that raised: write_cache (line 176) is not
\* reached.
AfterFailedPush(file, facts) == file

\* A ProfileManager with a server that takes package profiles and with
\* report_package_profile on (lines 438-445): its profile is held by
\* `installed`, and it has no tags.
InitPush ==
    /\ manager \in {"InstalledProductsManager", "ProfileManager"}
    /\ installed \in ProductMaps
    /\ tags \in SUBSET TagPool
    /\ push_file \in PushFiles
    /\ manager = "ProfileManager" => tags = {} /\ push_file.tags = <<>>
    /\ held = NoFacts
    /\ attempts = 0
    /\ check = NoCheck
    /\ nchecks = 0
    /\ last_one = "none"
    /\ SyncIdle
    /\ MergeIdle
    /\ StoreIdle
    /\ PullIdle

\* How an update_check ended.
Checked(uuid, force, hc, r, pushed, err, w) ==
    /\ check' = [uuid |-> uuid, force |-> force, changed |-> hc, ret |-> r,
                 push |-> pushed, error |-> err, wrote |-> w]
    /\ nchecks' = nchecks + 1
    /\ last_one' = IF r = "1" THEN w ELSE last_one
    /\ UNCHANGED <<manager, installed, tags>>
    /\ UNCHANGED <<mvars, svars, tvars, qvars, command>>

\* CacheManager.update_check (lines 149-187).
UpdateCheck ==
    /\ nchecks < MaxChecks
    \* consumer_uuid is None, the empty string or a uuid
    /\ \E uuid \in {"None", "", "u"}, force \in BOOLEAN,
          err \in {NoError, [kind |-> "RestlibException", msg |-> "consumer deleted"]}
                    \cup OtherErrors,
          w \in {"written", "open_failed", "dump_failed"} :
         LET hc == has_changed(manager, push_file, installed, tags)
         IN  IF NoIdentity(uuid)
             THEN /\ Checked(uuid, force, "none", "0", NoError, NoError, "none")
                  /\ UNCHANGED <<push_file, held, attempts>>
             ELSE IF hc = "TypeError"
             THEN /\ Checked(uuid, force, hc, "raised", NoError,
                             [kind |-> "TypeError",
                              msg |-> "'NoneType' object is not subscriptable"],
                             "none")
                  /\ UNCHANGED <<push_file, held, attempts>>
             ELSE IF hc = "True" \/ force
             THEN /\ attempts' = attempts + 1
                  /\ IF err = NoError
                     THEN /\ held' = Facts(installed, tags)
                          /\ push_file' = WriteCache(push_file, Facts(installed, tags), w)
                          /\ Checked(uuid, force, hc, "1", NoError, NoError, w)
                     ELSE /\ Checked(uuid, force, hc, "raised", err, Reraised(err), "none")
                          /\ push_file' = AfterFailedPush(push_file, Facts(installed, tags))
                          /\ UNCHANGED held
             ELSE /\ Checked(uuid, force, hc, "0", NoError, NoError, "none")
                  /\ UNCHANGED <<push_file, held, attempts>>

NextPush == UpdateCheck

SpecPush == InitPush /\ [][NextPush]_vars

(***************************************************************************)
(* StatusCache: read_status, load_status, delete_cache and the threads     *)
(* that write_cache starts.                                                *)
(***************************************************************************)
\* What the server answers: "s1" stands for a short JSON value such as "ok",
\* "s2" for a longer one.
Statuses == {"s1", "s2"}

\* The classes of the errors _sync_with_server raises.
ErrorKinds ==
    {"SSLError", "AuthenticationException", "ExpiredIdentityCertException",
     "ConnectionException", "RateLimitExceededException", "socket.error",
     "RestlibException"}

FetchOutcomes == {"ok"} \cup ErrorKinds

\* isinstance over rhsm.connection: the three identity errors are
\* ConnectionExceptions, the error the server answers with is none.
IsA(kind, class) ==
    \/ kind = class
    \/ /\ class = "ConnectionException"
       /\ kind \in {"SSLError", "AuthenticationException", "ExpiredIdentityCertException"}

\* The except clauses of load_status in their order (lines 215-249).
ExceptClauses ==
    << [classes |-> {"SSLError"}, does |-> "null"],
       [classes |-> {"AuthenticationException"}, does |-> "null"],
       [classes |-> {"ExpiredIdentityCertException"}, does |-> "null"],
       [classes |-> {"ConnectionException", "RateLimitExceededException", "socket.error"},
        does |-> "fallback"],
       [classes |-> {"RestlibException"}, does |-> "null"] >>

Matches(kind, clause) == \E c \in clause.classes : IsA(kind, c)

\* A load_status whose clause for the unreachable server comes first.
HandlerTransportFirst(kind) ==
    LET order == <<4, 1, 2, 3, 5>>
        hit == {i \in 1..5 : Matches(kind, ExceptClauses[order[i]])}
    IN  ExceptClauses[order[CHOOSE i \in hit : \A j \in hit : i <= j]].does

\* The first clause that matches decides.
Handler(kind) ==
    LET hit == {i \in DOMAIN ExceptClauses : Matches(kind, ExceptClauses[i])}
    IN  ExceptClauses[CHOOSE i \in hit : \A j \in hit : i <= j].does

\* CacheManager._read_cache and _load_data on a file that exists (lines
\* 119-136, 254-256): a status as it was written; None for the JSON null and,
\* the ValueError being ignored, for content json.loads rejects.
Parse(file) == IF file \in Statuses THEN file ELSE "None"

\* A fallback that gives up the cache.
FallbackNull(status, file) == [status |-> status, ret |-> "None", disk |-> FALSE]

\* The clause for the unreachable server (lines 236-243) with _cache_exists
\* and _read_cache of StatusCache (lines 258-274): the mirror when it holds a
\* value, else the file when there is one, which the mirror then keeps.
Fallback(status, file) ==
    IF status # "None" THEN [status |-> status, ret |-> status, disk |-> FALSE]
    ELSE IF file = "absent" THEN [status |-> "None", ret |-> "None", disk |-> FALSE]
    ELSE [status |-> Parse(file), ret |-> Parse(file), disk |-> TRUE]

\* A load_status that starts no writer thread.
LoadStatusNoWrite(o, v, status, file) ==
    IF o = "ok"
    THEN [status |-> v, err |-> "False", ret |-> v, disk |-> FALSE, spawn |-> FALSE]
    ELSE IF Handler(o) = "fallback"
    THEN LET f == Fallback(status, file)
         IN  [status |-> f.status, err |-> o, ret |-> f.ret, disk |-> f.disk, spawn |-> FALSE]
    ELSE [status |-> status, err |-> o, ret |-> "None", disk |-> FALSE, spawn |-> FALSE]

\* StatusCache.load_status (lines 199-249) with the fetch ending as o, in v
\* when it succeeds.
load_status(o, v, status, file) ==
    IF o = "ok"
    THEN [status |-> v, err |-> "False", ret |-> v, disk |-> FALSE, spawn |-> TRUE]
    ELSE IF Handler(o) = "fallback"
    THEN LET f == Fallback(status, file)
         IN  [status |-> f.status, err |-> o, ret |-> f.ret, disk |-> f.disk, spawn |-> FALSE]
    ELSE [status |-> status, err |-> o, ret |-> "None", disk |-> FALSE, spawn |-> FALSE]

\* A read_status that goes to the server every time.
NeverReadsThrough(status) == FALSE

\* `self.server_status is None` (line 290), negated.
ReadsThrough(status) == status # "None"

\* to_dict and json.dump (lines 251-252, 111).
Dumped(status) == IF status = "None" THEN "null" ELSE status

\* The bytes of a content: "s1" and null take four, "s2" more; a torn file
\* is as long as the "s2" whose end it keeps.
ByteLen(c) ==
    CASE c = "empty" -> 0
      [] c \in {"s1", "null"} -> 4
      [] c \in {"s2", "torn"} -> 9

\* A write from offset 0 into a file not truncated since another write.
Overlay(old, new) == IF ByteLen(new) >= ByteLen(old) THEN new ELSE "torn"

InFlight == waiting + writing + orphaned

InitPull ==
    /\ server_status = "None"
    /\ last_error = "None"
    /\ pull_file \in {"absent"} \cup Statuses
    /\ waiting = 0
    /\ writing = 0
    /\ orphaned = 0
    /\ deleting = FALSE
    /\ did = NoOp
    /\ seen = "none"
    /\ shown = "None"
    /\ fresh = "None"
    /\ failed = FALSE
    /\ nops = 0
    /\ SyncIdle
    /\ MergeIdle
    /\ StoreIdle
    /\ PushIdle

\* The end of a read_status or load_status.
Returned(name, o, r, called, disk, spawn) ==
    /\ did' = [name |-> name, fetch |-> o, ret |-> r, called |-> called, disk |-> disk]
    /\ seen' = IF disk THEN pull_file ELSE seen
    /\ waiting' = IF spawn THEN waiting + 1 ELSE waiting
    /\ failed' = IF spawn THEN FALSE ELSE failed
    /\ nops' = nops + 1
    /\ UNCHANGED <<pull_file, writing, orphaned, deleting>>
    /\ UNCHANGED <<mvars, svars, tvars, pvars, command>>

\* load_status called by itself, as PoolTypeCache._do_update calls it.
LoadStatus ==
    /\ ~deleting
    /\ nops < MaxOps
    /\ \E o \in FetchOutcomes, v \in Statuses :
         /\ o = "ok" => InFlight < MaxWriters
         /\ LET r == load_status(o, v, server_status, pull_file)
            IN  /\ server_status' = r.status
                /\ last_error' = r.err
                /\ fresh' = IF o = "ok" THEN v ELSE fresh
                /\ shown' = shown
                /\ Returned("load_status", o, r.ret, TRUE, r.disk, r.spawn)

\* StatusCache.read_status (lines 276-292).
ReadStatus ==
    /\ ~deleting
    /\ nops < MaxOps
    /\ IF ReadsThrough(server_status)
       THEN /\ shown' = server_status
            /\ fresh' = server_status
            /\ UNCHANGED <<server_status, last_error>>
            /\ Returned("read_status", "none", server_status, FALSE, FALSE, FALSE)
       ELSE \E o \in FetchOutcomes, v \in Statuses :
              /\ o = "ok" => InFlight < MaxWriters
              /\ LET r == load_status(o, v, server_status, pull_file)
                 IN  /\ server_status' = r.ret
                     /\ last_error' = r.err
                     /\ shown' = IF r.ret # "None" THEN r.ret ELSE shown
                     /\ fresh' = IF r.ret # "None" THEN r.ret ELSE fresh
                     /\ Returned("read_status", o, r.ret, TRUE, r.disk, r.spawn)

\* StatusCache.delete_cache, its first half: CacheManager.delete_cache
\* (lines 86-91).  The threads that hold the file open keep a file without a
\* name.
DeleteRemove ==
    /\ ~deleting
    /\ nops < MaxOps
    /\ deleting' = TRUE
    /\ IF pull_file # "absent"
       THEN /\ pull_file' = "absent"
            /\ orphaned' = orphaned + writing
            /\ writing' = 0
       ELSE UNCHANGED <<pull_file, orphaned, writing>>
    /\ UNCHANGED <<server_status, last_error, waiting, did, seen, shown, fresh, failed, nops>>
    /\ UNCHANGED <<mvars, svars, tvars, pvars, command>>

\* Its second half: self.server_status = None (line 307).
DeleteClear ==
    /\ deleting
    /\ deleting' = FALSE
    /\ server_status' = "None"
    /\ did' = [name |-> "delete_cache", fetch |-> "none", ret |-> "None",
               called |-> FALSE, disk |-> FALSE]
    /\ shown' = "None"
    /\ fresh' = "None"
    /\ nops' = nops + 1
    /\ UNCHANGED <<last_error, pull_file, waiting, writing, orphaned, seen, failed>>
    /\ UNCHANGED <<mvars, svars, tvars, pvars, command>>

\* A writer thread reaches open(self.CACHE_FILE, "w+") (line 110): the file
\* is there and empty.
WriterOpen ==
    /\ waiting > 0
    /\ waiting' = waiting - 1
    /\ writing' = writing + 1
    /\ pull_file' = "empty"
    /\ UNCHANGED <<server_status, last_error, orphaned, deleting, did, seen, shown, fresh,
                   failed, nops>>
    /\ UNCHANGED <<mvars, svars, tvars, pvars, command>>

\* It dumps what to_dict gives by then and closes the file (lines 111-112).
WriterFlush ==
    /\ writing > 0
    /\ writing' = writing - 1
    /\ pull_file' = Overlay(pull_file, Dumped(server_status))
    /\ UNCHANGED <<server_status, last_error, waiting, orphaned, deleting, did, seen, shown,
                   fresh, failed, nops>>
    /\ UNCHANGED <<mvars, svars, tvars, pvars, command>>

\* The same of a thread whose file was removed: nothing of it stays.
OrphanFlush ==
    /\ orphaned > 0
    /\ orphaned' = orphaned - 1
    /\ UNCHANGED <<server_status, last_error, pull_file, waiting, writing, deleting, did, seen,
                   shown, fresh, failed, nops>>
    /\ UNCHANGED <<mvars, svars, tvars, pvars, command>>

\* A writer thread ends on an IOError, of makedirs or open before the file
\* was touched or of the dump after open emptied it: write_cache logs the
\* error (lines 115-117) and the thread is over.
WriterFails ==
    /\ \/ waiting > 0 /\ waiting' = waiting - 1 /\ UNCHANGED writing
       \/ writing > 0 /\ writing' = writing - 1 /\ UNCHANGED waiting
    /\ failed' = TRUE
    /\ UNCHANGED <<server_status, last_error, pull_file, orphaned, deleting, did, seen, shown,
                   fresh, nops>>
    /\ UNCHANGED <<mvars, svars, tvars, pvars, command>>

NextPull ==
    \/ LoadStatus
    \/ ReadStatus
    \/ DeleteRemove
    \/ DeleteClear
    \/ WriterOpen
    \/ WriterFlush
    \/ OrphanFlush
    \/ WriterFails

SpecPull == InitPull /\ [][NextPull]_vars

\* The writer threads are not daemons: each one started gets to run.
SpecPullFair == SpecPull /\ WF_vars(WriterOpen) /\ WF_vars(WriterFlush)

(***************************************************************************)
(* Properties of three_way_merge, checked under SpecMerge.                 *)
(***************************************************************************)
Done == pc = "done"

Visited == AllKeys(local, base, remote)

\* "Changed" as the specification words it: local differs from base in the
\* value found under the key (absent reads as null); remote holds the key
\* with a value other than base's.
LocalChanged(k) == Get(base, k) # Get(local, k)

RemoteChanged(k) == k \in DOMAIN remote /\ Get(base, k) # Get(remote, k)

\* No side holds a null value.
NoNulls == \A d \in {local, base, remote} : \A k \in DOMAIN d : d[k] # NULL

\* The DiffChanges emitted for key k.
ChangesFor(k) == {i \in 1..Len(changes) : changes[i].key = k}

\* C1: a key neither side changed is in the result with base's value when
\* base holds it, and is not in the result when base does not (stated for
\* records that hold no null, where absent and null cannot be confused).
C1_UnchangedCarriesBase ==
    (Done /\ NoNulls) =>
      \A k \in Visited :
        (~LocalChanged(k) /\ ~RemoteChanged(k)) =>
          IF k \in DOMAIN base
          THEN k \in DOMAIN result /\ result[k] = base[k]
          ELSE k \notin DOMAIN result

\* The rule of C2 for a key both sides changed: the policy alone decides.
BothChangedByPolicy ==
    Done =>
      \A k \in Visited :
        (LocalChanged(k) /\ RemoteChanged(k)) =>
          /\ on_conflict = "remote" => k \in DOMAIN result /\ result[k] = remote[k]
          /\ on_conflict = "local" =>
               IF k \in DOMAIN local
               THEN k \in DOMAIN result /\ result[k] = local[k]
               ELSE k \notin DOMAIN result

\* The instance C2 names: base lacks k, local[k] = a, remote[k] = b, a # b.
IntroducedByBoth(k) ==
    /\ k \notin DOMAIN base
    /\ k \in DOMAIN local
    /\ k \in DOMAIN remote
    /\ local[k] # remote[k]

PolicyPicks(k) ==
    /\ k \in DOMAIN result
    /\ on_conflict = "remote" => result[k] = remote[k]
    /\ on_conflict = "local" => result[k] = local[k]

\* C2 as claimed: a key both sides changed is decided by the policy alone,
\* and a key both sides introduce with values a # b gets b under
\* preferRemote and a under preferLocal, for all a and b.
C2_Original ==
    /\ BothChangedByPolicy
    /\ Done => \A k \in Visited : IntroducedByBoth(k) => PolicyPicks(k)

\* C2 as amended: the same, the instance holding for a and b that are not null.
C2_ConflictByPolicy ==
    /\ BothChangedByPolicy
    /\ Done =>
         \A k \in Visited :
           (IntroducedByBoth(k) /\ local[k] # NULL /\ remote[k] # NULL) => PolicyPicks(k)

\* Witness of C2: both sides introduced a key with different non-null values
\* and preferLocal kept local's.
C2_Witness ==
    /\ Done
    /\ on_conflict = "local"
    /\ \E k \in Visited :
         /\ IntroducedByBoth(k)
         /\ local[k] # NULL /\ remote[k] # NULL
         /\ result[k] = local[k]

\* The rule of C3 for a key exactly one side changed: that side's value,
\* whatever the policy; a local deletion removes the key.
OneSideChanged ==
    Done =>
      \A k \in Visited :
        /\ (RemoteChanged(k) /\ ~LocalChanged(k)) =>
             k \in DOMAIN result /\ result[k] = remote[k]
        /\ (LocalChanged(k) /\ ~RemoteChanged(k)) =>
             IF k \in DOMAIN local
             THEN k \in DOMAIN result /\ result[k] = local[k]
             ELSE k \notin DOMAIN result

\* The instance C3 names: base lacks k, local has k = v, remote equals base.
IntroducedLocally(k) ==
    /\ k \notin DOMAIN base
    /\ k \in DOMAIN local
    /\ remote = base

OneLocalChange(k) ==
    /\ k \in DOMAIN result
    /\ result[k] = local[k]
    /\ Cardinality(ChangesFor(k)) = 1
    /\ \A i \in ChangesFor(k) : changes[i].source = "local"

\* C3 as claimed: the side that alone changed a key decides it under both
\* policies, and a key only local introduces, with any value v, is in the
\* result with v and has exactly one DiffChange, of source "local".
C3_Original ==
    /\ OneSideChanged
    /\ Done => \A k \in Visited : IntroducedLocally(k) => OneLocalChange(k)

\* C3 as amended: the same, the instance holding for a value v that is not null.
C3_OneSideWins ==
    /\ OneSideChanged
    /\ Done =>
         \A k \in Visited :
           (IntroducedLocally(k) /\ local[k] # NULL) => OneLocalChange(k)

\* Witness of C3: a key only local introduced, merged under preferRemote.
C3_Witness ==
    /\ Done
    /\ on_conflict = "remote"
    /\ \E k \in Visited :
         IntroducedLocally(k) /\ local[k] # NULL /\ OneLocalChange(k)

\* The merge as a function of its inputs alone, key by key.
MergedKeys(l, b, r, p) ==
    {k \in AllKeys(l, b, r) : k \in DOMAIN MergeKey(l, b, r, p, k).from}

Merged(l, b, r, p) ==
    [k \in MergedKeys(l, b, r, p) |-> MergeKey(l, b, r, p, k).from[k]]

MergedChanges(l, b, r, p) ==
    {DiffChange(Merged(l, b, r, p), b, k, MergeKey(l, b, r, p, k).source) :
        k \in {x \in AllKeys(l, b, r) : MergeKey(l, b, r, p, x).changed}}

\* Determinism: whatever order the loop visits the keys in, the result and
\* the set of DiffChanges are those the inputs fix.
Deterministic ==
    Done =>
      /\ result = Merged(local, base, remote, on_conflict)
      /\ {changes[i] : i \in 1..Len(changes)} =
            MergedChanges(local, base, remote, on_conflict)
      /\ Len(changes) = Cardinality(MergedChanges(local, base, remote, on_conflict))

\* C4 as claimed: the merge is deterministic, and with out = merge(L,B,R,P)
\* and R unchanged, merge(out,out,R,P) = out.
C4_Original ==
    /\ Deterministic
    /\ (Done /\ round = 2 /\ remote = first.remote) => result = first.out

\* C4 as amended: the merge is deterministic, and merging its output again
\* is a no-op once the remote record holds that output: merge(out,out,out,P)
\* = out, with no DiffChange.
C4_DeterministicAndStable ==
    /\ Deterministic
    /\ (Done /\ round = 2 /\ remote = first.out) =>
          result = first.out /\ changes = <<>>

\* Witness of C4: a second merge over an output that differs from all three
\* inputs' common value, both keys having been visited.
C4_Witness ==
    /\ Done
    /\ round = 2
    /\ remote = first.out
    /\ first.remote # first.out
    /\ Cardinality(DOMAIN result) = 2
    /\ result = first.out

\* Whether the outcome for k differs from base, by presence or by value.
OutcomeDiffers(k) ==
    \/ (k \in DOMAIN base) # (k \in DOMAIN result)
    \/ k \in DOMAIN base /\ k \in DOMAIN result /\ base[k] # result[k]

\* C5: one DiffChange for every key whose outcome differs from base, none
\* for a key whose outcome equals base, each with the fields of the outcome
\* (stated for records that hold no null).
C5_OneChangePerDifference ==
    (Done /\ NoNulls) =>
      \A k \in Visited :
        /\ Cardinality(ChangesFor(k)) = IF OutcomeDiffers(k) THEN 1 ELSE 0
        /\ \A i \in ChangesFor(k) :
             /\ changes[i].previous_value = Get(base, k)
             /\ changes[i].new_value = Get(result, k)
             /\ changes[i].in_base = (k \in DOMAIN base)
             /\ changes[i].in_result = (k \in DOMAIN result)
             /\ changes[i].source \in {"local", "remote"}

\* C6: equal local, base and remote merge to base with no DiffChange, under
\* either policy.
C6_EqualInputsNoChange ==
    (Done /\ local = base /\ base = remote) => (result = base /\ changes = <<>>)

\* Witness of C6: three equal two-key records merged under preferLocal.
C6_Witness ==
    /\ Done
    /\ round = 1
    /\ on_conflict = "local"
    /\ local = base /\ base = remote
    /\ Cardinality(DOMAIN base) = 2
    /\ result = base

\* C7: with a policy that is neither "remote" nor "local" the merge raises
\* before it visits a key: no result, no DiffChange, no default policy.
C7_InvalidPolicyRaises ==
    on_conflict \notin ValidPolicies =>
      /\ pc \in {"start", "error"}
      /\ result = EmptyRec
      /\ changes = <<>>

\* Witness of C7: the merge has raised on inputs that are not empty.
C7_Witness ==
    /\ pc = "error"
    /\ on_conflict \notin ValidPolicies
    /\ local # EmptyRec /\ remote # EmptyRec /\ local # remote

(***************************************************************************)
(* Properties of sync(), checked under SpecSync.                           *)
(***************************************************************************)
\* The file holds the record d.
Holds(file, d) == file = JsonFile(d)

\* C8: when the remote cannot supply the resource (no uep or identity, or a
\* server without the capability), every key and value the local record had
\* before the first of a run of sync() calls is in the local store after
\* every sync() of the run.
C8_LocalFactsKept ==
    (uep # "ok" /\ run_len >= 1 /\ outcome = "returned") =>
      /\ local_file.kind = "json"
      /\ \A k \in DOMAIN run_local :
           k \in DOMAIN local_file.d /\ local_file.d[k] = run_local[k]

\* C9: when the push raises, the merged record has been written to the local
\* store and to the cache store by the time sync() exits.
C9_WrittenDespitePushFailure ==
    outcome = "push_raised" =>
      /\ Holds(local_file, last.result)
      /\ Holds(cache_file, last.result)

RoleIs(v) == [k \in {ROLE} |-> Str(v)]

\* C10: sync() merges with preferRemote, and when it returns the local
\* store, the cache store and the returned record are the merged record;
\* local {role: X}, cache {} and remote {role: Y} give {role: Y}.
C10_ReturnedIsMergedEverywhere ==
    outcome = "returned" =>
      /\ ret = Merged(last.local, last.base, last.remote, "remote")
      /\ Holds(local_file, ret)
      /\ Holds(cache_file, ret)
      /\ ~local_none /\ local_contents = ret
      /\ cache_contents = ret
      /\ (last.local = RoleIs("X") /\ last.base = EmptyRec /\ last.remote = RoleIs("Y")) =>
            ret = RoleIs("Y")

\* Witness of C10: the scenario, after sync() returned.
C10_Witness ==
    /\ outcome = "returned"
    /\ last.local = RoleIs("X")
    /\ last.base = EmptyRec
    /\ last.remote = RoleIs("Y")
    /\ ret = RoleIs("Y")
    /\ Holds(local_file, RoleIs("Y"))
    /\ Holds(cache_file, RoleIs("Y"))

\* A no-op cycle is about to start: the two files and the two records in
\* memory hold one record, and the server's record reads the same.
NoDrift ==
    /\ sess = "open"
    /\ ~local_none
    /\ Holds(local_file, local_contents)
    /\ Holds(cache_file, cache_contents)
    /\ local_contents = cache_contents
    /\ SyncRemote = local_contents

\* The step is a sync() call that returned.
SyncReturned == nsyncs' = nsyncs + 1 /\ outcome' = "returned"

\* The record a fetch would read from the server.
RemoteHeld == get_remote_contents(uep, consumer)

\* e is d up to empty values: every attribute d holds a non-empty value for
\* has that value in e, every other attribute is absent or empty in e.
SameUpToEmpty(d, e) ==
    \A a \in ATTRIBUTES :
        IF Truthy(Get(d, a)) THEN Get(e, a) = Get(d, a) ELSE ~Truthy(Get(e, a))

C12_Original ==
    [][(SyncReturned /\ uep = "ok" /\ last'.remote # EmptyRec
          /\ last'.result = last'.remote) => pushes' = pushes]_vars

\* C12: sync() calls updateConsumer once whenever there are a uep and a
\* consumer_uuid, also when the merged record equals the fetched one (local
\* {role: X}, cache {}, remote {role: Y}); that push leaves every non-empty
\* attribute of the remote as it was.
C12_PushesAnyway ==
    [][(SyncReturned /\ last'.result = last'.remote) =>
          /\ pushes' = pushes + (IF uep = "none" THEN 0 ELSE 1)
          /\ SameUpToEmpty(RemoteHeld, RemoteHeld')]_vars

C12_Witness ==
    /\ outcome = "returned"
    /\ uep = "ok"
    /\ nsyncs = 1
    /\ pushes = 1
    /\ last.local = RoleIs("X")
    /\ last.base = EmptyRec
    /\ last.remote = RoleIs("Y")
    /\ last.result = RoleIs("Y")
    /\ Get(RemoteHeld, ROLE) = Str("Y")

\* C13: leaving the scope calls finish(), and finish() runs sync() once when
\* the session is dirty and not at all when it is clean; a finish() whose
\* sync() returned reports True and leaves the session clean, so the next
\* finish() runs no sync().
C13_FinishSyncsOnceIfDirty ==
    [][finished' # "none" =>
          /\ nsyncs' = nsyncs + (IF changed THEN 1 ELSE 0)
          /\ finished' = "True" => (changed /\ ~changed' /\ outcome' = "returned")
          /\ finished' = "False" => (~changed /\ ~changed')
          /\ finished' = "raised" => (changed /\ changed' /\ outcome' # "returned")
          /\ (finished # "none" /\ ~changed) => nsyncs' = nsyncs]_vars

\* A session that was edited and left through a finish() whose sync()
\* returned.
C13_Witness ==
    /\ finished = "True"
    /\ nedits >= 1
    /\ nsyncs = 1
    /\ outcome = "returned"
    /\ ~changed

(***************************************************************************)
(* Properties of the mutators, checked under SpecStore.                    *)
(***************************************************************************)
Synced == store = "SyncedStore"

WasCalled(op) == call.op = op

\* C14: no mutator of a SyncedStore modifies the local record and leaves
\* the dirty flag clear: when the record differs from what it was before
\* the call, self.changed is set.
C14_ChangeMarksDirty ==
    (Synced /\ call.op # "none" /\ contents # before) => dirty

\* C15: after unset("service_level_agreement") the key is present with "",
\* whether or not it was there before; after unset("role") the key is gone;
\* in SyspurposeStore and in SyncedStore alike, after any earlier mutators.
C15_UnsetServiceLevelKeepsKey ==
    WasCalled("unset") =>
      /\ call.key = SERVICE_LEVEL =>
           (SERVICE_LEVEL \in DOMAIN contents /\ contents[SERVICE_LEVEL] = Str(""))
      /\ call.key = ROLE => ROLE \notin DOMAIN contents
      /\ \A k \in StoreKeys \ {call.key} :
           (k \in DOMAIN contents <=> k \in DOMAIN before) /\ Get(contents, k) = Get(before, k)

\* A SyspurposeStore without the service level, unset after another mutator.
C15_Witness ==
    /\ store = "SyspurposeStore"
    /\ WasCalled("unset")
    /\ call.key = SERVICE_LEVEL
    /\ SERVICE_LEVEL \notin DOMAIN before
    /\ ROLE \in DOMAIN before /\ before[ROLE].kind = "list" /\ Len(before[ROLE].l) = 2
    /\ contents[SERVICE_LEVEL] = Str("")

\* C16: after unset("addons") the key is present with an empty list, in
\* SyspurposeStore.unset as in SyncedStore.unset.
C16_UnsetAddonsKeepsList ==
    (WasCalled("unset") /\ call.key = ADDONS) =>
      (ADDONS \in DOMAIN contents /\ contents[ADDONS] = List(<<>>))

\* C17 as stated: unset(key) returns True exactly when the key was in the
\* record before the call, whatever value it held, null included.
C17_Original ==
    WasCalled("unset") => (returned = "True" <=> call.key \in DOMAIN before)

\* C17: unset(key) returns True exactly when the key held a value other
\* than null before the call: False for a missing key and for a key that
\* held null, True for every other value, "" and [] included.
C17_UnsetReturnsNotNone ==
    WasCalled("unset") =>
      /\ returned = (IF Get(before, call.key) # NULL THEN "True" ELSE "False")
      /\ call.key \notin DOMAIN before => returned = "False"
      /\ (call.key \in DOMAIN before /\ before[call.key] # NULL) => returned = "True"

\* unset of a key that held null returned False and deleted the key.
C17_Witness ==
    /\ WasCalled("unset")
    /\ call.key = ROLE
    /\ ROLE \in DOMAIN before
    /\ before[ROLE] = NULL
    /\ ROLE \notin DOMAIN contents
    /\ returned = "False"

\* The key k is in both records or in neither, with the same value.
SameAt(d, e, k) == (k \in DOMAIN d <=> k \in DOMAIN e) /\ Get(d, k) = Get(e, k)

Previous(d, k) ==
    IF Get(d, k) = NULL THEN <<>>
    ELSE IF d[k].kind = "list" THEN d[k].l ELSE <<d[k].s>>

\* C19: when add returns False the record is exactly what it was before
\* the call, also when the key held a scalar equal to the value; when it
\* returns True the key holds the list of the previous element or elements
\* followed by the new value.
C19_AddNoOpWhenPresent ==
    WasCalled("add") =>
      /\ returned = "False" => contents = before
      /\ returned = "True" =>
           /\ call.key \in DOMAIN contents
           /\ contents[call.key] = List(Append(Previous(before, call.key), call.value.s))

\* C20: remove(key, value) on a scalar equal to the value does and returns
\* what unset(key) does; on a list with the value it removes that element,
\* keeps the key and returns True; in every other case the record is as it
\* was and False is returned.
C20_RemoveCases ==
    WasCalled("remove") =>
      LET k == call.key
          cur == Get(before, k)
      IN  IF cur.kind = "str" /\ cur = call.value
          THEN /\ contents = UnsetOf(store, before, k)
               /\ returned = PyBool(UnsetReturns(before, k))
          ELSE IF cur.kind = "list" /\ call.value.s \in Elems(cur.l)
          THEN /\ contents = Put(before, k, List(RemoveFirst(cur.l, call.value.s)))
               /\ returned = "True"
          ELSE /\ contents = before
               /\ returned = "False"

(***************************************************************************)
(* Properties of loading, checked under SpecSync.                          *)
(***************************************************************************)
\* C21: a local file with content that does not parse halts the session
\* that loads it instead of being read as the empty record, so the file
\* stays as it is: no sync() or write of the session replaces it.
C21_MalformedLocalKept ==
    [][local_file = MalformedFile => local_file' = MalformedFile]_vars


(* Properties of update_check, checked under SpecPush. *)
\* An update_check was made by this step.
CheckMade == nchecks' = nchecks + 1

\* C22: update_check with no consumer identity, the empty string or None,
\* returns 0 and raises nothing, pushes nothing and leaves the cache file,
\* whatever has changed and whatever force is.
C22_NoIdentityReturnsZero ==
    [][(CheckMade /\ check'.uuid \in {"None", ""})
         => /\ check'.ret = "0"
            /\ check'.error = NoError
            /\ attempts' = attempts
            /\ held' = held
            /\ push_file' = push_file]_vars

\* C22: a forced check with the empty string for the identity and no cache
\* file returned 0.
C22_Witness ==
    /\ check.uuid = ""
    /\ check.force
    /\ check.ret = "0"
    /\ push_file.kind = "absent"
    /\ attempts = 0

\* The cache file holds the facts the system has now.
CacheIsCurrent ==
    /\ push_file.kind = "entry"
    /\ push_file.products = installed
    /\ TagSet(push_file.tags) = tags

\* C23: with an identity, update_check pushes exactly when the facts differ
\* from the cache or force is set; a push that goes through is followed by
\* the cache file holding the facts pushed (the disk taking the write) and by
\* the return of 1; otherwise it returns 0, pushes nothing and writes nothing.
C23_PushesWhenChangedOrForced ==
    [][(CheckMade /\ check'.uuid = "u")
         => IF ~CacheIsCurrent \/ check'.force
            THEN /\ attempts' = attempts + 1
                 /\ check'.push = NoError
                      => /\ held' = Facts(installed, tags)
                         /\ check'.ret = "1"
                         /\ check'.wrote = "written"
                              => push_file' = CacheEntryOf(Facts(installed, tags))
            ELSE /\ check'.ret = "0"
                 /\ attempts' = attempts
                 /\ held' = held
                 /\ push_file' = push_file]_vars

\* C24: when the push fails, a RestlibException reaches the caller as it is,
\* any other failure reaches it as the one generic error that carries nothing
\* of the cause, and the push was tried once.
C24_PushFailureReraised ==
    [][(CheckMade /\ check'.push # NoError)
         => /\ attempts' = attempts + 1
            /\ check'.ret = "raised"
            /\ IF check'.push.kind = "RestlibException"
               THEN check'.error = check'.push
               ELSE /\ check'.error.kind = "Exception"
                    /\ check'.error.msg = GenericError.msg
                    /\ check'.error.msg # check'.push.msg]_vars

\* C24: two pushes failed, the last on a socket error that reached the caller
\* as the generic error.
C24_Witness ==
    /\ check.push.kind = "socket.error"
    /\ check.error = GenericError
    /\ check.ret = "raised"
    /\ attempts = 2

\* C25: has_changed of the installed products compares in depth: against a
\* cache entry it is true exactly when the products differ in a key or a
\* value or the tags differ, the count of the keys being equal or not.
C25_HasChangedIsDeep ==
    [][(CheckMade /\ check'.changed # "none" /\ push_file.kind = "entry")
         => (check'.changed = "True"
               <=> (push_file.products # installed \/ TagSet(push_file.tags) # tags))]_vars

\* C25: has_changed was true with the same product ids and the same tags in
\* the cache entry, a version differing; the push failed, so the entry is
\* the one compared.
C25_Witness ==
    /\ check.changed = "True"
    /\ check.ret = "raised"
    /\ manager = "InstalledProductsManager"
    /\ push_file.kind = "entry"
    /\ DOMAIN push_file.products = DOMAIN installed
    /\ push_file.products # installed
    /\ TagSet(push_file.tags) = tags

(* Properties of the status cache, checked under SpecPull. *)
\* A call returned by this step.
OpMade == nops' = nops + 1

ReadMade == OpMade /\ did'.name = "read_status"

\* C26 as stated: a read_status with a value in the mirror returns it with no
\* call to the server and no read of the file, and once a read_status has
\* returned a status every later one returns the same until delete_cache.
C26_Original ==
    [][ReadMade
         => /\ server_status # "None"
                 => did'.ret = server_status /\ ~did'.called /\ ~did'.disk
            /\ shown # "None" => did'.ret = shown]_vars

\* C26: a read_status with a value in the mirror returns it with no call to
\* the server and no read of the file; once a read_status has returned a
\* status every later one returns the same, until delete_cache is called or
\* a load_status called by itself fetches a status, which later reads return.
C26_ReadThrough ==
    [][ReadMade
         => /\ server_status # "None"
                 => did'.ret = server_status /\ ~did'.called /\ ~did'.disk
            /\ fresh # "None"
                 => did'.ret = fresh /\ ~did'.called /\ ~did'.disk]_vars

\* C26: a read_status answered from the mirror, which holds what an earlier
\* fallback found in the file.
C26_Witness ==
    /\ did.name = "read_status"
    /\ ~did.called
    /\ did.ret = "s1"
    /\ last_error = "socket.error"
    /\ seen = "s1"

\* C27: when the fetch of load_status fails with an SSL, authentication or
\* expired-identity error, or with the error of a server that lacks the
\* resource, last_error holds the error and null is returned, the file not
\* being read, whether there is one or not.
C27_NoFallbackOnIdentityError ==
    [][(OpMade /\ did'.called
          /\ did'.fetch \in {"SSLError", "AuthenticationException",
                             "ExpiredIdentityCertException", "RestlibException"})
         => /\ did'.ret = "None"
            /\ last_error' = did'.fetch
            /\ ~did'.disk
            /\ seen' = seen]_vars

\* C27: load_status returned null on an authentication error with a status
\* in the file and none in the mirror.
C27_Witness ==
    /\ did.name = "load_status"
    /\ did.fetch = "AuthenticationException"
    /\ did.ret = "None"
    /\ last_error = "AuthenticationException"
    /\ server_status = "None"
    /\ pull_file \in Statuses

\* C28: with the server out of reach (connection error, rate limit, socket
\* error) a read of the cache with nothing in memory, as every read_status
\* that calls the server is, returns the status in the file when the file
\* holds one and null when there is no file.
C28_StaleFallback ==
    [][(OpMade /\ did'.called /\ server_status = "None"
          /\ did'.fetch \in {"ConnectionException", "RateLimitExceededException",
                             "socket.error"})
         => /\ pull_file \in Statuses => did'.ret = pull_file /\ pull_file' = pull_file
            /\ pull_file = "absent" => did'.ret = "None"
            /\ last_error' = did'.fetch]_vars

\* C28: read_status returned the status of the file on a rate limit.
C28_Witness ==
    /\ did.name = "read_status"
    /\ did.fetch = "RateLimitExceededException"
    /\ did.disk
    /\ did.ret = "s2"
    /\ pull_file = "s2"

\* C29: once delete_cache has returned and the writer threads started before
\* it have ended, there is no cache file and the mirror is null.
C29_DeleteLeavesNothing ==
    (did.name = "delete_cache" /\ ~deleting /\ InFlight = 0)
        => (pull_file = "absent" /\ server_status = "None")

\* C30: a read of the cache file finds a whole content, the one before a
\* write or the one after it, never an empty or a torn file.
C30_ReadsSeeWholeContent == seen \notin {"empty", "torn"}

(* Properties of the background write, checked under SpecPullFair. *)
\* A fetch succeeded in the call this step made.
Fetched == OpMade /\ did'.called /\ did'.fetch = "ok"

C32_FailedPushKeepsCache ==
    [][/\ (CheckMade /\ check'.push # NoError)
            => push_file' = push_file /\ held' = held
       /\ (CheckMade /\ check.push # NoError /\ check'.uuid = "u")
            => /\ check'.changed = check.changed
               /\ check.changed = "True" => attempts' = attempts + 1]_vars

\* C32: two checks without force found the change and pushed, the push
\* failing both times.
C32_Witness ==
    /\ nchecks = 2
    /\ attempts = 2
    /\ ~check.force
    /\ check.changed = "True"
    /\ check.push # NoError
    /\ installed # EmptyRec
    /\ held = NoFacts

C38_UnusableCacheIsNoCache ==
    [][(CheckMade /\ check'.uuid = "u" /\ push_file.kind \in {"absent", "malformed", "old"})
         => /\ check'.changed = "True"
            /\ attempts' = attempts + 1
            /\ (check'.push = NoError /\ check'.wrote = "written")
                 => /\ check'.ret = "1"
                    /\ push_file' = CacheEntryOf(Facts(installed, tags))]_vars

(***************************************************************************)
(* The function sync(uep, consumer_uuid, command) of syspurpose/sync.py,   *)
(* on the files at USER_SYSPURPOSE and CACHED_SYSPURPOSE.  Both files      *)
(* exist, are writable and hold a JSON object, so SyspurposeStore.read    *)
(* goes through read_file alone.                                           *)
(***************************************************************************)
\* read_syspurpose(): SyspurposeStore is defined, so it returns the
\* `contents` dict of a store read from the file, whatever raise_on_error.
read_syspurpose(file) == file.d

\* Line 216, negated: the call goes past the early return.
FnSyncs(u, cmd) == u = "ok" \/ cmd = "service_level_agreement"

\* Lines 222-248: the merge of the local file, the cache file and the
\* attributes the consumer holds, by sync.py's own three_way_merge with its
\* default policy.
FnResult ==
    sync_three_way_merge(read_syspurpose(local_file), cache_file.d,
                         RemoteSupplied(consumer), "remote")

InitFn ==
    /\ uep \in {"old", "ok"}
    /\ consumer \in (IF uep = "ok" THEN Consumers ELSE {NoConsumer})
    /\ cp_nulls = FALSE
    /\ local_file \in {JsonFile(d) : d \in FileRecords}
    /\ cache_file \in {JsonFile(d) : d \in FileRecords}
    /\ SessionUnborn
    /\ MergeIdle
    /\ StoreIdle
    /\ CacheIdle

\* Bookkeeping of every call of the function.
FnCalled(cmd, how, value) ==
    /\ nsyncs < MaxSyncs
    /\ nsyncs' = nsyncs + 1
    /\ command' = cmd
    /\ outcome' = how
    /\ ret' = value
    /\ UNCHANGED <<uep, consumer, cp_nulls, local_file, sess, local_contents, local_none,
                   cache_contents, aliased, changed, run_local, run_len, pushes,
                   nedits, finished>>
    /\ UNCHANGED <<mvars, tvars, cvars>>

\* Lines 216-218: no capability and another command; the local record is
\* returned.
FnNotSupported ==
    \E cmd \in {"None", "service_level_agreement"} :
        /\ ~FnSyncs(uep, cmd)
        /\ FnCalled(cmd, "returned", read_syspurpose(local_file))
        /\ UNCHANGED <<cache_file, last>>

\* Line 220: getConsumer raises.
FnFetchRaises ==
    \E cmd \in {"None", "service_level_agreement"} :
        /\ FnSyncs(uep, cmd)
        /\ FnCalled(cmd, "fetch_raised", EmptyRec)
        /\ UNCHANGED <<cache_file, last>>

\* Line 251: sp_cache.write() raises.
FnCacheWriteRaises ==
    \E cmd \in {"None", "service_level_agreement"} :
        /\ FnSyncs(uep, cmd)
        /\ FnCalled(cmd, "cache_write_raised", EmptyRec)
        /\ last' = [local |-> read_syspurpose(local_file), base |-> cache_file.d,
                    remote |-> RemoteSupplied(consumer), result |-> FnResult]
        /\ UNCHANGED cache_file

\* Lines 250-253: the cache file is written; then `local_sp.contents =
\* result` assigns an attribute of the dict read_syspurpose() returned at line
\* 222, which raises AttributeError.  Lines 254-270 (the write of the local
\* file, updateConsumer, the return) are never reached.
FnAttributeError ==
    \E cmd \in {"None", "service_level_agreement"} :
        /\ FnSyncs(uep, cmd)
        /\ FnCalled(cmd, "attribute_error", EmptyRec)
        /\ last' = [local |-> read_syspurpose(local_file), base |-> cache_file.d,
                    remote |-> RemoteSupplied(consumer), result |-> FnResult]
        /\ cache_file' = JsonFile(FnResult)

NextFn == FnNotSupported \/ FnFetchRaises \/ FnCacheWriteRaises \/ FnAttributeError

SpecFn == InitFn /\ [][NextFn]_vars

(* Further properties of the session, checked under SpecSync. *)
\* A sync() call was made by this step, by the caller or by finish().
SyncMade == nsyncs' = nsyncs + 1

\* C34: self.changed is False after a sync() that returned, and after a
\* sync() that raised, in the fetch, the push or either write, it is what it
\* was before the call.
C34_DirtyClearedOnSuccessOnly ==
    [][SyncMade
         => IF outcome' = "returned" THEN changed' = FALSE ELSE changed' = changed]_vars

\* C34: a session made dirty by a mutator is still dirty after a sync()
\* whose push raised.
C34_Witness ==
    /\ sess = "open"
    /\ outcome = "push_raised"
    /\ nedits > 0
    /\ changed

\* C35: the local record sync() hands to the merge is the record in memory
\* as the mutators of the session left it, an empty one included, never the
\* content of the file.
C35_MergesMemoryRecord ==
    [][(SyncMade /\ ~local_none /\ outcome' # "fetch_raised")
         => last'.local = local_contents]_vars

(* Further properties of the merge, checked under SpecMerge. *)
\* The DiffChanges a finished call of files.py's three_way_merge emitted.
ChangesEmitted == {changes[i] : i \in DOMAIN changes}

\* C36: for the same local, base, remote and policy the three_way_merge of
\* sync.py returns the record the three_way_merge of files.py returns and
\* emits the same DiffChanges, a key of base absent from local included.
C36_MergesAgree ==
    pc = "done"
      => /\ result = sync_three_way_merge(local, base, remote, on_conflict)
         /\ ChangesEmitted = SyncPyChanges(local, base, remote, on_conflict)

\* The value of `key` in the result so far is the value of that key in local
\* or in remote.
FromEitherSide(key) ==
    \/ key \in DOMAIN local /\ result[key] = local[key]
    \/ key \in DOMAIN remote /\ result[key] = remote[key]

\* C37: a call with a valid policy never raises, and the record it builds
\* and returns has keys of local, base or remote only, each with the value
\* that key has in local or in remote; a value of base alone is never in it.
C37_MergeIntroducesNothing ==
    /\ on_conflict \in ValidPolicies => pc # "error"
    /\ pc \in {"loop", "done"}
         => /\ DOMAIN result \subseteq AllKeys(local, base, remote)
            /\ \A key \in DOMAIN result : FromEitherSide(key)

\* C37: a merge has returned a record that holds a key, and dropped a key
\* that only base held.
C37_Witness ==
    /\ pc = "done"
    /\ result # EmptyRec
    /\ \E key \in DOMAIN base :
         /\ key \notin DOMAIN local
         /\ key \notin DOMAIN remote
         /\ key \notin DOMAIN result

(* Properties of the function sync() of sync.py, checked under SpecFn. *)
\* A call of the function was made by this step.
FnMade == nsyncs' = nsyncs + 1

\* The server and both file writes did their part in the call.
FnUndisturbed == outcome' \notin {"fetch_raised", "cache_write_raised"}

\* C39: a call sync(uep, consumer_uuid) against a server with the syspurpose
\* capability returns the merged record, having written it to the cache file
\* and to the local file and pushed it with updateConsumer; against a server
\* without the capability it returns the local record and writes and pushes
\* nothing.
C39_FunctionSyncs ==
    [][(FnMade /\ command' = "None" /\ FnUndisturbed)
         => IF uep = "ok"
            THEN /\ outcome' = "returned"
                 /\ ret' = FnResult
                 /\ cache_file' = JsonFile(FnResult)
                 /\ local_file' = JsonFile(FnResult)
                 /\ pushes' = pushes + 1
            ELSE /\ outcome' = "returned"
                 /\ ret' = read_syspurpose(local_file)
                 /\ UNCHANGED <<local_file, cache_file, pushes, consumer>>]_vars
=============================================================================
